---- MODULE Spec2Model ----
(***************************************************************************)
(* Model of generate-icons.py: the script checks that speech-bubble.png    *)
(* exists, creates icons/, opens the image and, for each entry of SIZES,   *)
(* resizes it to a square and saves it as icons/icon-<size>.png.           *)
(*                                                                         *)
(* The file system (source file, icons/ directory, icon files) outlives a  *)
(* process; the script may be executed again on it.  One execution of the  *)
(* script is a "run"; pc is the position of the current run in             *)
(* generate_icons().                                                       *)
(***************************************************************************)
EXTENDS Integers, Sequences, FiniteSets, TLC

\* Number of successive executions of the script that are explored.
MaxRuns == 2

\* generate-icons.py:11
SIZES == <<72, 96, 128, 144, 152, 192, 384, 512>>

\* generate-icons.py:16
source == "speech-bubble.png"

\* generate-icons.py:31, f"icons/icon-{size}.png"
OutputPath(size) == <<"icons/icon-", size, ".png">>

AllPaths == {OutputPath(SIZES[i]) : i \in 1..Len(SIZES)}

\* The file at speech-bubble.png: absent, a decodable image, a file whose
\* header Image.open rejects, or a truncated image (Image.open reads the
\* header lazily and succeeds; the pixel data fails to load on first use).
Sources ==
    { [kind |-> "missing",   dims |-> <<0, 0>>],
      [kind |-> "badheader", dims |-> <<0, 0>>],
      [kind |-> "truncated", dims |-> <<1024, 1024>>],
      [kind |-> "good",      dims |-> <<1024, 1024>>],
      [kind |-> "good",      dims |-> <<800, 600>>] }

\* The path icons: absent, a directory, or a path os.makedirs cannot turn
\* into a directory (a regular file named icons, a read-only parent).
DirStates == {"absent", "dir", "blocked"}

\* Messages of the exceptions the imaging library and the OS raise; the same
\* exception class is raised by more than one stage.
ExcMsgs == {"OSError", "MemoryError"}

NoImage == [dims |-> <<0, 0>>, loadable |-> FALSE]

\* Content of a file left behind by a save that failed part-way.
Damaged == <<-1, -1>>

VARIABLES
    src,          \* the file speech-bubble.png
    dirState,     \* the path icons/
    files,        \* files under icons/: path -> dimensions of the image held
    run,          \* number of the current execution of the script
    pc,           \* position of the current run
    img,          \* local img
    k,            \* position in SIZES of the loop variable size
    resized,      \* local resized (its dimensions)
    written,      \* paths this run saved, in order
    out,          \* lines this run printed to standard output
    stage,        \* step of this run that raised, "none" if none did
    filesAtStart, \* files when this run started
    dirAtStart,   \* dirState when this run started
    prevPc,       \* final pc of the previous run
    prevOut,      \* last line printed by the previous run
    prevStage     \* stage of the previous run

vars == <<src, dirState, files, run, pc, img, k, resized, written, out, stage,
          filesAtStart, dirAtStart, prevPc, prevOut, prevStage>>

----------------------------------------------------------------------------
\* Printed lines.

\* generate-icons.py:19
MissingReport == <<"Error: ", source, " not found">>

\* generate-icons.py:27
SourceReport(d) == <<"Source image: ", d[1], "x", d[2]>>

\* generate-icons.py:33
GeneratedReport(path) == <<"Generated: ", path>>

\* generate-icons.py:35
SuccessReport == <<"\nAll icons generated successfully!">>

\* generate-icons.py:36
ManifestReminder == <<"Update manifest.json to reference these icons.">>

\* The handler printing the line of the missing-source branch.
ErrorReportNotFound(e) == <<"Error: ", source, " not found">>

\* generate-icons.py:39
ErrorReport(e) == <<"Error generating icons: ", e>>

\* A resize that keeps the aspect ratio of img (what Image.thumbnail does).
ResizeKeepAspect(image, size) ==
    IF image.dims[1] >= image.dims[2]
    THEN <<size, (size * image.dims[2]) \div image.dims[1]>>
    ELSE <<(size * image.dims[1]) \div image.dims[2], size>>

\* generate-icons.py:30, img.resize((size, size), ...): the result has exactly
\* the size asked for, whatever the dimensions of img.
Resize(image, size) == <<size, size>>

\* Writing d to path creates the file or replaces its content.
WriteFile(fs, path, d) ==
    [p \in (DOMAIN fs) \cup {path} |-> IF p = path THEN d ELSE fs[p]]

\* except Exception as e: print(...), then the function returns.
Except(e, st) ==
    /\ out' = Append(out, ErrorReport(e))
    /\ stage' = st
    /\ pc' = "Failed"

----------------------------------------------------------------------------
Init ==
    /\ src \in Sources
    /\ dirState \in DirStates
    /\ files = << >>
    /\ run = 1
    /\ pc = "NotStarted"
    /\ img = NoImage
    /\ k = 0
    /\ resized = <<0, 0>>
    /\ written = << >>
    /\ out = << >>
    /\ stage = "none"
    /\ filesAtStart = << >>
    /\ dirAtStart = dirState
    /\ prevPc = "none"
    /\ prevOut = << >>
    /\ prevStage = "none"

\* The script is executed directly: __name__ is "__main__".
ModuleName == "__main__"

\* The guard compares __name__ with "main": generate_icons() is never called.
InvokeWrongName ==
    /\ pc = "NotStarted"
    /\ ModuleName = "main"
    /\ pc' = "exists"
    /\ UNCHANGED <<src, dirState, files, run, img, k, resized, written, out,
                   stage, filesAtStart, dirAtStart, prevPc, prevOut, prevStage>>

\* if __name__ == "__main__": generate_icons()
Invoke ==
    /\ pc = "NotStarted"
    /\ ModuleName = "__main__"
    /\ pc' = "exists"
    /\ UNCHANGED <<src, dirState, files, run, img, k, resized, written, out,
                   stage, filesAtStart, dirAtStart, prevPc, prevOut, prevStage>>

\* The output directory is created before the source is looked for.
CheckSourceAfterMakeDirs ==
    /\ pc = "exists"
    /\ dirState' = IF dirState = "absent" THEN "dir" ELSE dirState
    /\ IF src.kind = "missing"
       THEN /\ out' = Append(out, MissingReport)
            /\ stage' = "missing"
            /\ pc' = "Failed"
       ELSE /\ pc' = "makedirs"
            /\ UNCHANGED <<out, stage>>
    /\ UNCHANGED <<src, files, run, img, k, resized, written,
                   filesAtStart, dirAtStart, prevPc, prevOut, prevStage>>

\* if not os.path.exists(source): print, return
CheckSource ==
    /\ pc = "exists"
    /\ IF src.kind = "missing"
       THEN /\ out' = Append(out, MissingReport)
            /\ stage' = "missing"
            /\ pc' = "Failed"
       ELSE /\ pc' = "makedirs"
            /\ UNCHANGED <<out, stage>>
    /\ UNCHANGED <<src, dirState, files, run, img, k, resized, written,
                   filesAtStart, dirAtStart, prevPc, prevOut, prevStage>>

\* os.makedirs("icons") without exist_ok: an existing directory raises.
MakeDirsNoExistOk ==
    /\ pc = "makedirs"
    /\ \/ /\ dirState = "absent"
          /\ dirState' = "dir"
          /\ pc' = "open"
          /\ UNCHANGED stage
       \/ /\ dirState \in {"dir", "blocked"}
          /\ pc' = "Raised"
          /\ stage' = "makedirs"
          /\ UNCHANGED dirState
    /\ UNCHANGED <<src, files, run, img, k, resized, written, out,
                   filesAtStart, dirAtStart, prevPc, prevOut, prevStage>>

\* The call of os.makedirs left out.
MakeDirsSkipped ==
    /\ pc = "makedirs"
    /\ pc' = "open"
    /\ UNCHANGED <<src, dirState, files, run, img, k, resized, written, out,
                   stage, filesAtStart, dirAtStart, prevPc, prevOut, prevStage>>

\* os.makedirs("icons", exist_ok=True), outside the try block: an exception
\* it raises leaves generate_icons() and nothing is printed.
MakeDirs ==
    /\ pc = "makedirs"
    /\ \/ /\ dirState = "absent"
          /\ dirState' = "dir"
          /\ pc' = "open"
          /\ UNCHANGED stage
       \/ /\ dirState = "dir"
          /\ pc' = "open"
          /\ UNCHANGED <<dirState, stage>>
       \/ /\ dirState = "blocked"
          /\ pc' = "Raised"
          /\ stage' = "makedirs"
          /\ UNCHANGED dirState
    /\ UNCHANGED <<src, files, run, img, k, resized, written, out,
                   filesAtStart, dirAtStart, prevPc, prevOut, prevStage>>

\* img = Image.open(source); print the source dimensions
OpenImage ==
    /\ pc = "open"
    /\ \/ /\ src.kind \in {"good", "truncated"}
          /\ img' = [dims |-> src.dims, loadable |-> src.kind = "good"]
          /\ out' = Append(out, SourceReport(src.dims))
          /\ k' = 1
          /\ pc' = IF Len(SIZES) >= 1 THEN "resize" ELSE "finish"
          /\ UNCHANGED stage
       \/ /\ \E e \in ExcMsgs : Except(e, "decode")
          /\ UNCHANGED <<img, k>>
    /\ UNCHANGED <<src, dirState, files, run, resized, written,
                   filesAtStart, dirAtStart, prevPc, prevOut, prevStage>>

\* The try block inside the loop: a failed resize is reported and the loop
\* goes on with the next size.
ResizeStepContinue ==
    /\ pc = "resize"
    /\ \/ /\ img.loadable
          /\ resized' = Resize(img, SIZES[k])
          /\ pc' = "save"
          /\ UNCHANGED <<out, stage, k>>
       \/ /\ \E e \in ExcMsgs : out' = Append(out, ErrorReport(e))
          /\ stage' = "resample"
          /\ k' = k + 1
          /\ pc' = IF k < Len(SIZES) THEN "resize" ELSE "finish"
          /\ UNCHANGED resized
    /\ UNCHANGED <<src, dirState, files, run, img, written,
                   filesAtStart, dirAtStart, prevPc, prevOut, prevStage>>

\* resized = img.resize((size, size), Image.Resampling.LANCZOS)
ResizeStep ==
    /\ pc = "resize"
    /\ \/ /\ img.loadable
          /\ resized' = Resize(img, SIZES[k])
          /\ pc' = "save"
          /\ UNCHANGED <<out, stage>>
       \/ /\ \E e \in ExcMsgs : Except(e, "resample")
          /\ UNCHANGED resized
    /\ UNCHANGED <<src, dirState, files, run, img, k, written,
                   filesAtStart, dirAtStart, prevPc, prevOut, prevStage>>

\* The loop running over reversed(SIZES).
SaveReversed ==
    /\ pc = "save"
    /\ \/ /\ files' = WriteFile(files, OutputPath(SIZES[Len(SIZES) + 1 - k]), resized)
          /\ written' = Append(written, OutputPath(SIZES[Len(SIZES) + 1 - k]))
          /\ pc' = "print"
          /\ UNCHANGED <<out, stage>>
       \/ /\ \E e \in ExcMsgs : Except(e, "save")
          /\ UNCHANGED <<files, written>>
    /\ UNCHANGED <<src, dirState, run, img, k, resized,
                   filesAtStart, dirAtStart, prevPc, prevOut, prevStage>>

\* resized.save(output_path, "PNG"); a save that raises has not produced
\* the icon, and may leave the file as it was or damaged.
Save ==
    /\ pc = "save"
    /\ \/ /\ files' = WriteFile(files, OutputPath(SIZES[k]), resized)
          /\ written' = Append(written, OutputPath(SIZES[k]))
          /\ pc' = "print"
          /\ UNCHANGED <<out, stage>>
       \/ /\ \E e \in ExcMsgs : Except(e, "save")
          /\ \/ UNCHANGED files
             \/ files' = WriteFile(files, OutputPath(SIZES[k]), Damaged)
          /\ UNCHANGED written
    /\ UNCHANGED <<src, dirState, run, img, k, resized,
                   filesAtStart, dirAtStart, prevPc, prevOut, prevStage>>

\* print(f"Generated: {output_path}"), then the next size of the for loop
PrintGenerated ==
    /\ pc = "print"
    /\ out' = Append(out, GeneratedReport(OutputPath(SIZES[k])))
    /\ k' = k + 1
    /\ pc' = IF k < Len(SIZES) THEN "resize" ELSE "finish"
    /\ UNCHANGED <<src, dirState, files, run, img, resized, written, stage,
                   filesAtStart, dirAtStart, prevPc, prevOut, prevStage>>

\* The two prints after the loop, then the function returns.
Finish ==
    /\ pc = "finish"
    /\ out' = out \o <<SuccessReport, ManifestReminder>>
    /\ pc' = "Done"
    /\ UNCHANGED <<src, dirState, files, run, img, k, resized, written, stage,
                   filesAtStart, dirAtStart, prevPc, prevOut, prevStage>>

Terminal == {"Done", "Failed", "Raised"}

\* The script is executed again, on the file system the last run left.
NextRun ==
    /\ pc \in Terminal
    /\ run < MaxRuns
    /\ run' = run + 1
    /\ pc' = "NotStarted"
    /\ img' = NoImage
    /\ k' = 0
    /\ resized' = <<0, 0>>
    /\ written' = << >>
    /\ out' = << >>
    /\ stage' = "none"
    /\ filesAtStart' = files
    /\ dirAtStart' = dirState
    /\ prevPc' = pc
    /\ prevOut' = IF out = << >> THEN << >> ELSE out[Len(out)]
    /\ prevStage' = stage
    /\ UNCHANGED <<src, dirState, files>>

Next ==
    \/ Invoke
    \/ CheckSource
    \/ MakeDirs
    \/ OpenImage
    \/ ResizeStep
    \/ Save
    \/ PrintGenerated
    \/ Finish
    \/ NextRun

Spec == Init /\ [][Next]_vars

\* A process that is not finished takes its next step.
LiveSpec == Spec /\ WF_vars(Next)

----------------------------------------------------------------------------
\* Properties.

PathAt(i) == OutputPath(SIZES[i])

Positions == 1..Len(SIZES)

\* The first field of a printed line tells its kind.
Kind(line) == line[1]

Printed(kind) == \E j \in 1..Len(out) : Kind(out[j]) = kind

LastLine == IF out = << >> THEN << >> ELSE out[Len(out)]

IsErrorReport(line) == \E e \in ExcMsgs : line = ErrorReport(e)

Processing == {"decode", "resample", "save"}

\* The state of the run in the terms NotStarted, Running, Done, Failed: a run
\* that an exception ended is a failed run, whether the exception was caught
\* and reported or left generate_icons().
RunStateOf(p) ==
    CASE p = "NotStarted" -> "NotStarted"
      [] p = "Done" -> "Done"
      [] p \in {"Failed", "Raised"} -> "Failed"
      [] OTHER -> "Running"

\* The i-th icon file holds a square image of SIZES[i] pixels.
IconOk(i) ==
    /\ PathAt(i) \in DOMAIN files
    /\ files[PathAt(i)] = <<SIZES[i], SIZES[i]>>

\* C1: after a run that printed the overall-success line, every size of SIZES
\* has its file icons/icon-<size>.png, the run wrote it exactly once, and the
\* file holds a size x size image, whatever the dimensions of the source.
C1_SuccessAllIcons ==
    Printed(Kind(SuccessReport)) =>
        \A i \in Positions :
            /\ IconOk(i)
            /\ Cardinality({j \in 1..Len(written) : written[j] = PathAt(i)}) = 1

\* A successful run on a source that is not square.
C1_Witness ==
    /\ pc = "Done"
    /\ Printed(Kind(SuccessReport))
    /\ src.dims[1] # src.dims[2]

\* C2: no failure leaves generate_icons(): whichever step failed, the run
\* returned normally after printing a report.
C2_NeverPropagates ==
    stage # "none" =>
        /\ pc = "Failed"
        /\ LastLine = MissingReport \/ IsErrorReport(LastLine)

\* C3: with the source file missing, the run prints the error naming the file
\* and stops: the output directory is as it was, no icon file is created or
\* overwritten, nothing is decoded, and the run ends Failed.
C3_MissingSource ==
    (src.kind = "missing" /\ pc \notin {"NotStarted", "exists"}) =>
        /\ pc = "Failed"
        /\ RunStateOf(pc) = "Failed"
        /\ out = <<MissingReport>>
        /\ source \in {MissingReport[j] : j \in 1..Len(MissingReport)}
        /\ dirState = dirAtStart
        /\ files = filesAtStart
        /\ written = << >>
        /\ img = NoImage

\* A run on a missing source, with no output directory, has ended.
C3_Witness ==
    /\ src.kind = "missing"
    /\ dirAtStart = "absent"
    /\ pc = "Failed"

\* C4: when decode, resample or save fails at position k, the failure is
\* reported and the run stops: it wrote exactly the icons of the positions
\* before k, which are in place, the files of the later positions are as the
\* run found them, and the overall-success line is not printed.
C4_StopsAtFailure ==
    stage \in Processing =>
        /\ pc = "Failed"
        /\ IsErrorReport(LastLine)
        /\ written = [i \in 1..(IF k = 0 THEN 0 ELSE k - 1) |-> PathAt(i)]
        /\ \A i \in Positions : i < k => IconOk(i)
        /\ \A i \in Positions : i > k =>
               /\ (PathAt(i) \in DOMAIN files) = (PathAt(i) \in DOMAIN filesAtStart)
               /\ PathAt(i) \in DOMAIN files => files[PathAt(i)] = filesAtStart[PathAt(i)]
        /\ ~Printed(Kind(SuccessReport))

\* A save failed after the run had written some icons.
C4_Witness ==
    /\ stage = "save"
    /\ k = 3
    /\ Len(written) = 2

\* C5: with a corrupted source file the run writes no icon file, reports a
\* processing error and returns normally.
C5_CorruptSource ==
    (src.kind \in {"badheader", "truncated"} /\ pc \in Terminal) =>
        /\ written = << >>
        /\ files = filesAtStart
        /\ pc = "Failed"
        /\ IsErrorReport(LastLine)

\* C6: a run that follows a successful run does not fail on the existing
\* directory and adds no file; when it succeeds too it has overwritten every
\* icon and the files and their dimensions are those the first run left.
C6_Idempotent ==
    (run >= 2 /\ prevPc = "Done") =>
        /\ dirAtStart = "dir"
        /\ stage # "makedirs"
        /\ DOMAIN files = AllPaths
        /\ pc = "Done" =>
               /\ files = filesAtStart
               /\ written = [i \in Positions |-> PathAt(i)]

\* Two successful runs in succession.
C6_Witness ==
    /\ run = 2
    /\ prevPc = "Done"
    /\ pc = "Done"

\* C7: whenever the run has written an icon file, the directory icons/
\* exists.
C7_DirBeforeWrite ==
    written # << >> => dirState = "dir"

\* A run that had to create the directory has written an icon.
C7_Witness ==
    /\ dirAtStart = "absent"
    /\ written # << >>

\* C8: a run goes NotStarted -> Running -> Done or Failed and no other way,
\* Done and Failed are left by no step of the run, and every run reaches one
\* of them.
C8_StateMachine ==
    /\ [][run' = run =>
            \/ RunStateOf(pc') = RunStateOf(pc) /\ (pc \in Terminal => pc' = pc)
            \/ RunStateOf(pc) = "NotStarted" /\ RunStateOf(pc') = "Running"
            \/ RunStateOf(pc) = "Running" /\ RunStateOf(pc') \in {"Done", "Failed"}]_vars
    /\ \A n \in 1..MaxRuns :
           (run = n) ~> (run = n /\ RunStateOf(pc) \in {"Done", "Failed"})

\* Both ends are reached: a run is Done, after a run that Failed.
C8_Witness ==
    /\ RunStateOf(pc) = "Done"
    /\ RunStateOf(prevPc) = "Failed"

\* C9 as stated: the report tells the failing stage, so two failed runs that
\* print the same report failed in the same stage, and the report of a
\* missing source is none of theirs.
C9_StageIdentified ==
    /\ (stage \in Processing /\ prevStage \in Processing /\ LastLine = prevOut)
           => stage = prevStage
    /\ stage \in Processing => LastLine # MissingReport

\* C9 amended: a failed run's report tells a missing source (the not-found
\* line) from a processing failure (the generic line with the exception's
\* message), and nothing more: the generic line is the same for every stage.
C9_ReportKinds ==
    pc = "Failed" =>
        /\ (stage = "missing") = (LastLine = MissingReport)
        /\ (stage \in Processing) = IsErrorReport(LastLine)

\* Two runs failed in different stages and printed the same report.
C9_Witness ==
    /\ stage = "save"
    /\ prevStage = "decode"
    /\ LastLine = prevOut

\* The "Generated" lines printed so far.
GeneratedLines == SelectSeq(out, LAMBDA line : Kind(line) = "Generated: ")

\* C10: the icons written so far are those of a prefix of SIZES, in order;
\* nothing is written before the image is open; every "Generated" line
\* follows the write it reports; the overall-success line follows all the
\* writes and is never printed in a run that printed an error.
C10_Sequential ==
    /\ written = [i \in 1..Len(written) |-> PathAt(i)]
    /\ Len(written) <= Len(SIZES)
    /\ written # << >> => (img # NoImage /\ Kind(out[1]) = "Source image: ")
    /\ Len(GeneratedLines) <= Len(written)
    /\ \A j \in 1..Len(GeneratedLines) : GeneratedLines[j] = GeneratedReport(written[j])
    /\ Printed(Kind(SuccessReport)) =>
           /\ Len(written) = Len(SIZES)
           /\ Len(GeneratedLines) = Len(SIZES)
           /\ ~Printed(Kind(MissingReport))
           /\ ~Printed(Kind(ErrorReport("")))

\* An icon is written and its "Generated" line not yet printed.
C10_Witness ==
    /\ pc = "print"
    /\ Len(written) = 2
    /\ Len(GeneratedLines) = 1

====
